---- MODULE Spec2Model ----
(***************************************************************************)
(* Model of the expense tracker: the Record Store of main.py (three SQLite *)
(* tables and the tools over them) and the Agent Client of client1.py.     *)
(*                                                                         *)
(* Python's None is modelled as the empty set and a supplied value v as    *)
(* {v}, so that "v is not None" is v # {}.  TEXT values are TLA+ strings,  *)
(* compared the way SQLite's BINARY collation compares them (memcmp).      *)
(* REAL amounts are modelled by integers.                                  *)
(***************************************************************************)
EXTENDS Integers, Sequences, FiniteSets, TLC

VARIABLES
    expenses,     \* rows of table expenses
    expenses_seq, \* sqlite_sequence entry of expenses (AUTOINCREMENT)
    income,       \* rows of table income
    income_seq,   \* sqlite_sequence entry of income
    budgets,      \* rows of table budgets
    op,           \* name of the last tool that ran ("" before the first)
    args,         \* the arguments the claims refer to
    ret,          \* its return value
    raised,       \* TRUE when it raised instead of returning
    conn_open,    \* the last tool returned or raised with its connection open
    nops,         \* number of mutating tool calls so far
    returned_ids, \* history: the ids add_expense and add_income returned, in order
    limits_set,   \* history: category -> the limits set_budget stored, in order
    live,         \* history: id -> the row as last written, for rows not deleted
    pc,           \* Agent Client: position in main()
    api_key,      \* Agent Client: OPENAI_API_KEY is set
    tool_calls,   \* Agent Client: response.tool_calls of the first completion
    tc_index,     \* Agent Client: position of the for loop in tool_calls
    tool_messages,\* Agent Client: the ToolMessages collected so far
    final_request,\* Agent Client: the tool messages sent with the second request
    invoked,      \* Agent Client: history of the tool invocations started
    failed_at,    \* Agent Client: history, index of the invocation that raised
    llm_requests  \* Agent Client: history, number of completion requests issued

store_vars == <<expenses, expenses_seq, income, income_seq, budgets, op, args,
                ret, raised, conn_open, nops, returned_ids, limits_set, live>>
client_vars == <<pc, api_key, tool_calls, tc_index, tool_messages, final_request,
                 invoked, failed_at, llm_requests>>
vars == <<store_vars, client_vars>>

----------------------------------------------------------------------------
(* Bounds and input domains *)

MaxOps == 3          \* calls of mutating tools in one behaviour
MaxToolCalls == 3    \* tool calls the model may request in one response

None == {}
Some(v) == {v}
Opt(S) == {None} \cup {Some(v) : v \in S}
The(o) == CHOOSE v \in o : TRUE

\* add_expense inputs; amount None violates NOT NULL
ExpenseInputs ==
    {[date |-> "2024-01-15", amount |-> Some(5000), category |-> "shopping",
      subcategory |-> "", note |-> "New shoes"],
     [date |-> "2024-02-01", amount |-> Some(120), category |-> "food",
      subcategory |-> "", note |-> ""],
     [date |-> "2024-02-01", amount |-> Some(5000), category |-> "food",
      subcategory |-> "sub", note |-> ""],
     [date |-> "2024-01-15", amount |-> Some(120), category |-> "",
      subcategory |-> "", note |-> ""],
     [date |-> "2024-01-15", amount |-> None, category |-> "food",
      subcategory |-> "", note |-> ""]}
\* add_income inputs
IncomeInputs ==
    {[date |-> "2024-01-15", amount |-> Some(5000), source |-> "salary", note |-> ""],
     [date |-> "2024-01-15", amount |-> None, source |-> "salary", note |-> ""]}
RangeStarts == {"2024-01-15", "2024-02"}
RangeEnds == {"2024-02", "2024-02-01", "2024-12-31"}
Months == {"2024-01", "2024-02", "2024"}
Categories == {"", "food", "shopping"}
Limits == {100, 300}
ExpenseFields == {"date", "amount", "category", "subcategory", "note"}
\* update_expense inputs: each field absent (None) or supplied ("" is a
\* supplied value), every subset of the fields
Patches ==
    {p \in [date : Opt({"2024-02-01"}), amount : Opt({120}),
            category : Opt({"food"}), subcategory : Opt({"sub"}),
            note : Opt({""})] :
        Cardinality({k \in ExpenseFields : p[k] # None}) \in 0..5}

----------------------------------------------------------------------------
(* SQLite semantics used by the statements of main.py *)

\* Code points of the characters that occur in the strings above.
CodePoint ==
    ("-" :> 45) @@ ("0" :> 48) @@ ("1" :> 49) @@ ("2" :> 50) @@ ("3" :> 51) @@
    ("4" :> 52) @@ ("5" :> 53) @@ ("d" :> 100) @@ ("f" :> 102) @@
    ("g" :> 103) @@ ("h" :> 104) @@ ("i" :> 105) @@ ("n" :> 110) @@
    ("o" :> 111) @@ ("p" :> 112) @@ ("s" :> 115)

RECURSIVE StrLessFrom(_, _, _)
\* memcmp on the common prefix, then the shorter string first
StrLessFrom(a, b, i) ==
    IF i > Len(a) THEN i <= Len(b)
    ELSE IF i > Len(b) THEN FALSE
    ELSE LET ca == CodePoint[SubSeq(a, i, i)]
             cb == CodePoint[SubSeq(b, i, i)]
         IN  IF ca # cb THEN ca < cb ELSE StrLessFrom(a, b, i + 1)

StrLess(a, b) == StrLessFrom(a, b, 1)
StrLeq(a, b) == a = b \/ StrLess(a, b)

\* x BETWEEN lo AND hi
Between(x, lo, hi) == StrLeq(lo, x) /\ StrLeq(x, hi)

\* substr(s, 1, n): the first n characters, the whole string when shorter
Substr1(s, n) == SubSeq(s, 1, IF Len(s) < n THEN Len(s) ELSE n)

\* substr(e.date, 1, 7) = ?
MonthMatches(date, month) == Substr1(date, 7) = month

RowIds(rows) == {r.id : r \in rows}
MaxRowid(rows) == IF rows = {} THEN 0
                  ELSE CHOOSE m \in RowIds(rows) : \A i \in RowIds(rows) : i <= m

\* rowid of an INSERT without AUTOINCREMENT: one more than the largest in the table
NextRowidPlain(rows, seq) == MaxRowid(rows) + 1

\* rowid of an INSERT into an AUTOINCREMENT table: one more than the largest
\* rowid the table has ever held (sqlite_sequence)
NextRowid(rows, seq) ==
    (IF seq > MaxRowid(rows) THEN seq ELSE MaxRowid(rows)) + 1

RECURSIVE SumAmount(_)
\* SUM(amount) over a set of rows
SumAmount(rows) ==
    IF rows = {} THEN 0
    ELSE LET r == CHOOSE r \in rows : TRUE
         IN  r.amount + SumAmount(rows \ {r})

RECURSIVE OrderById(_)
\* ORDER BY id ASC
OrderById(rows) ==
    IF rows = {} THEN << >>
    ELSE LET r == CHOOSE r \in rows : \A q \in rows : r.id <= q.id
         IN  <<r>> \o OrderById(rows \ {r})

RECURSIVE OrderByCategory(_)
\* ORDER BY category ASC
OrderByCategory(rows) ==
    IF rows = {} THEN << >>
    ELSE LET r == CHOOSE r \in rows :
                      \A q \in rows : StrLeq(r.category, q.category)
         IN  <<r>> \o OrderByCategory(rows \ {r})

----------------------------------------------------------------------------
(* The statements each tool executes *)

\* INSERT INTO expenses(date, amount, category, subcategory, note)
InsertExpense(rows, seq, date, amount, category, subcategory, note) ==
    [id |-> NextRowid(rows, seq), date |-> date, amount |-> amount,
     category |-> category, subcategory |-> subcategory, note |-> note]

\* INSERT INTO income(date, amount, source, note)
InsertIncome(rows, seq, date, amount, source, note) ==
    [id |-> NextRowid(rows, seq), date |-> date, amount |-> amount,
     source |-> source, note |-> note]

\* the "k = ?" fragments update_expense collects: the fields that are not None
SuppliedFields(patch) == {k \in ExpenseFields : patch[k] # None}

\* "if v:" in place of "if v is not None": a supplied "" counts as absent
SetFieldsTruthy(row, patch) ==
    [k \in DOMAIN row |->
        IF /\ k \in SuppliedFields(patch)
           /\ (IF k = "amount" THEN The(patch[k]) # 0 ELSE The(patch[k]) # "")
        THEN The(patch[k]) ELSE row[k]]

\* SET k = ? for the supplied fields, the other columns as they are
SetFields(row, patch) ==
    [k \in DOMAIN row |->
        IF k \in SuppliedFields(patch) THEN The(patch[k]) ELSE row[k]]

\* an UPDATE that falls back to inserting the row when the id is missing
UpdateOrInsert(rows, expense_id, patch) ==
    IF expense_id \in RowIds(rows)
    THEN {IF r.id = expense_id THEN SetFields(r, patch) ELSE r : r \in rows}
    ELSE rows \cup {SetFields([id |-> expense_id, date |-> "", amount |-> 0,
                               category |-> "", subcategory |-> "",
                               note |-> ""], patch)}

\* UPDATE expenses SET ... WHERE id = ?
UpdateWhereId(rows, expense_id, patch) ==
    {IF r.id = expense_id THEN SetFields(r, patch) ELSE r : r \in rows}

\* a DELETE the wrong way round: removes the newest row when the id is missing
DeleteOrLast(rows, expense_id) ==
    IF expense_id \in RowIds(rows)
    THEN {r \in rows : r.id # expense_id}
    ELSE {r \in rows : r.id # MaxRowid(rows)}

\* DELETE FROM expenses WHERE id = ?
DeleteWhereId(rows, expense_id) == {r \in rows : r.id # expense_id}

\* INSERT ... ON CONFLICT(category) DO NOTHING: the first limit is kept
InsertOrIgnore(rows, category, monthly_limit) ==
    IF \E b \in rows : b.category = category THEN rows
    ELSE rows \cup {[category |-> category, monthly_limit |-> monthly_limit]}

\* INSERT ... ON CONFLICT(category) DO UPDATE SET monthly_limit = excluded.monthly_limit
Upsert(rows, category, monthly_limit) ==
    IF \E b \in rows : b.category = category
    THEN {IF b.category = category
          THEN [b EXCEPT !.monthly_limit = monthly_limit] ELSE b : b \in rows}
    ELSE rows \cup {[category |-> category, monthly_limit |-> monthly_limit]}

\* the SELECT with an exclusive upper bound
SelectExpensesHalfOpen(rows, start_date, end_date) ==
    OrderById({r \in rows : StrLeq(start_date, r.date) /\ StrLess(r.date, end_date)})

\* SELECT ... FROM expenses WHERE date BETWEEN ? AND ? ORDER BY id ASC
SelectExpenses(rows, start_date, end_date) ==
    OrderById({r \in rows : Between(r.date, start_date, end_date)})

\* SELECT category, SUM(amount) ... WHERE date BETWEEN ? AND ? [AND category = ?]
\* GROUP BY category ORDER BY category ASC.  "if category:" is Python
\* truthiness: None and "" both leave the AND clause out.
SelectSummary(rows, start_date, end_date, category) ==
    LET restrict == category # None /\ The(category) # ""
        hit == {r \in rows : /\ Between(r.date, start_date, end_date)
                             /\ restrict => r.category = The(category)}
        groups == {[category |-> c,
                    total_amount |-> SumAmount({r \in hit : r.category = c})] :
                   c \in {r.category : r \in hit}}
    IN  OrderByCategory(groups)

\* budgets b JOIN expenses e (inner): budgets without a matching expense drop out
SelectBudgetStatusInner(brows, erows, month) ==
    LET joined(c) == {<<b, e>> \in brows \X erows :
                        /\ b.category = c
                        /\ b.category = e.category
                        /\ MonthMatches(e.date, month)}
        spent(c) == SumAmount({[id |-> p[2].id, amount |-> p[2].amount] :
                               p \in joined(c)})
        groups == {[category |-> c,
                    monthly_limit |-> (CHOOSE b \in brows : b.category = c).monthly_limit,
                    spent |-> spent(c),
                    remaining |-> (CHOOSE b \in brows : b.category = c).monthly_limit
                                    - spent(c)] :
                   c \in {b.category : b \in {q \in brows : joined(q.category) # {}}}}
    IN  OrderByCategory(groups)

\* budgets b LEFT JOIN expenses e ON b.category = e.category AND
\* substr(e.date, 1, 7) = ? GROUP BY b.category ORDER BY b.category
SelectBudgetStatus(brows, erows, month) ==
    LET joined(c) == {<<b, e>> \in brows \X erows :
                        /\ b.category = c
                        /\ b.category = e.category
                        /\ MonthMatches(e.date, month)}
        \* IFNULL(SUM(e.amount), 0), one term per joined pair
        spent(c) == SumAmount({[b |-> p[1], id |-> p[2].id, amount |-> p[2].amount] :
                               p \in joined(c)})
        groups == {[category |-> c,
                    monthly_limit |-> (CHOOSE b \in brows : b.category = c).monthly_limit,
                    spent |-> spent(c),
                    remaining |-> (CHOOSE b \in brows : b.category = c).monthly_limit
                                    - spent(c)] :
                   c \in {b.category : b \in brows}}
    IN  OrderByCategory(groups)

----------------------------------------------------------------------------
(* The Record Store: init_db and the tools of main.py *)

\* history: the row an id holds after it was written by add_expense
Written(h, row) ==
    [i \in DOMAIN h \cup {row.id} |-> IF i = row.id THEN row ELSE h[i]]

\* history: the row after update_expense changed the supplied fields
Patched(h, expense_id, patch) ==
    [i \in DOMAIN h |->
        IF i # expense_id THEN h[i]
        ELSE [h[i] EXCEPT
                !.date = IF patch.date = None THEN @ ELSE The(patch.date),
                !.amount = IF patch.amount = None THEN @ ELSE The(patch.amount),
                !.category = IF patch.category = None THEN @ ELSE The(patch.category),
                !.subcategory =
                    IF patch.subcategory = None THEN @ ELSE The(patch.subcategory),
                !.note = IF patch.note = None THEN @ ELSE The(patch.note)]]

\* history: the rows without the deleted id
Removed(h, expense_id) == [i \in DOMAIN h \ {expense_id} |-> h[i]]

\* init_db: CREATE TABLE IF NOT EXISTS on a fresh database file
init_db ==
    /\ expenses = {}
    /\ expenses_seq = 0
    /\ income = {}
    /\ income_seq = 0
    /\ budgets = {}
    /\ op = ""
    /\ args = << >>
    /\ ret = None
    /\ raised = FALSE
    /\ conn_open = FALSE
    /\ nops = 0
    /\ returned_ids = [expenses |-> << >>, income |-> << >>]
    /\ limits_set = [c \in Categories |-> << >>]
    /\ live = << >>

\* "with sqlite3.connect(DB_PATH) as c": leaving the block commits, or rolls
\* back when the body raised; it does not close the connection.  No tool
\* calls close(), so the connection is open when the tool returns or raises
\* and is closed only if and when the interpreter finalizes the object.
WithConnectExit == conn_open' = TRUE

add_expense(date, amount, category, subcategory, note) ==
    /\ nops < MaxOps
    /\ op' = "add_expense"
    /\ args' = << >>
    /\ nops' = nops + 1
    /\ WithConnectExit
    /\ IF amount = None
       THEN \* NOT NULL constraint failed: expenses.amount (IntegrityError)
            /\ raised' = TRUE
            /\ ret' = None
            /\ UNCHANGED <<expenses, expenses_seq, returned_ids, live>>
       ELSE LET row == InsertExpense(expenses, expenses_seq, date, The(amount),
                                     category, subcategory, note)
            IN  /\ expenses' = expenses \cup {row}
                /\ expenses_seq' = row.id
                /\ raised' = FALSE
                /\ ret' = [status |-> "ok", id |-> row.id]
                /\ returned_ids' =
                     [returned_ids EXCEPT !.expenses = Append(@, row.id)]
                /\ live' = Written(live, row)
    /\ UNCHANGED <<income, income_seq, budgets, limits_set>>
    /\ UNCHANGED client_vars

list_expenses(start_date, end_date) ==
    /\ op' = "list_expenses"
    /\ args' = [start_date |-> start_date, end_date |-> end_date]
    /\ ret' = SelectExpenses(expenses, start_date, end_date)
    /\ raised' = FALSE
    /\ WithConnectExit
    /\ UNCHANGED <<expenses, expenses_seq, income, income_seq, budgets, nops,
                   returned_ids, limits_set, live>>
    /\ UNCHANGED client_vars

summarize(start_date, end_date, category) ==
    /\ op' = "summarize"
    /\ args' = [start_date |-> start_date, end_date |-> end_date,
                category |-> category]
    /\ ret' = SelectSummary(expenses, start_date, end_date, category)
    /\ raised' = FALSE
    /\ WithConnectExit
    /\ UNCHANGED <<expenses, expenses_seq, income, income_seq, budgets, nops,
                   returned_ids, limits_set, live>>
    /\ UNCHANGED client_vars

update_expense(expense_id, patch) ==
    /\ nops < MaxOps
    /\ op' = "update_expense"
    /\ args' = [expense_id |-> expense_id, patch |-> patch]
    /\ nops' = nops + 1
    /\ raised' = FALSE
    /\ IF SuppliedFields(patch) = {}
       THEN \* "if not fields": returns before any connection is opened
            /\ ret' = [status |-> "no_changes"]
            /\ conn_open' = FALSE
            /\ UNCHANGED <<expenses, live>>
       ELSE /\ expenses' = UpdateWhereId(expenses, expense_id, patch)
            /\ WithConnectExit
            /\ ret' = [status |-> "ok"]
            /\ live' = Patched(live, expense_id, patch)
    /\ UNCHANGED <<expenses_seq, income, income_seq, budgets, returned_ids,
                   limits_set>>
    /\ UNCHANGED client_vars

delete_expense(expense_id) ==
    /\ nops < MaxOps
    /\ op' = "delete_expense"
    /\ args' = [expense_id |-> expense_id]
    /\ nops' = nops + 1
    /\ expenses' = DeleteWhereId(expenses, expense_id)
    /\ WithConnectExit
    /\ raised' = FALSE
    /\ ret' = [status |-> "deleted"]
    /\ live' = Removed(live, expense_id)
    /\ UNCHANGED <<expenses_seq, income, income_seq, budgets, returned_ids,
                   limits_set>>
    /\ UNCHANGED client_vars

add_income(date, amount, source, note) ==
    /\ nops < MaxOps
    /\ op' = "add_income"
    /\ args' = << >>
    /\ nops' = nops + 1
    /\ WithConnectExit
    /\ IF amount = None
       THEN \* NOT NULL constraint failed: income.amount (IntegrityError)
            /\ raised' = TRUE
            /\ ret' = None
            /\ UNCHANGED <<income, income_seq, returned_ids>>
       ELSE LET row == InsertIncome(income, income_seq, date, The(amount),
                                    source, note)
            IN  /\ income' = income \cup {row}
                /\ income_seq' = row.id
                /\ raised' = FALSE
                /\ ret' = [status |-> "ok", id |-> row.id]
                /\ returned_ids' =
                     [returned_ids EXCEPT !.income = Append(@, row.id)]
    /\ UNCHANGED <<expenses, expenses_seq, budgets, limits_set, live>>
    /\ UNCHANGED client_vars

set_budget(category, monthly_limit) ==
    /\ nops < MaxOps
    /\ op' = "set_budget"
    /\ args' = [category |-> category, monthly_limit |-> monthly_limit]
    /\ nops' = nops + 1
    /\ WithConnectExit
    /\ IF monthly_limit = None
       THEN \* NOT NULL constraint failed: budgets.monthly_limit
            /\ raised' = TRUE
            /\ ret' = None
            /\ UNCHANGED <<budgets, limits_set>>
       ELSE /\ budgets' = Upsert(budgets, category, The(monthly_limit))
            /\ raised' = FALSE
            /\ ret' = [status |-> "ok"]
            /\ limits_set' = [limits_set EXCEPT ![category] = Append(@, The(monthly_limit))]
    /\ UNCHANGED <<expenses, expenses_seq, income, income_seq, returned_ids, live>>
    /\ UNCHANGED client_vars

budget_status(month) ==
    /\ op' = "budget_status"
    /\ args' = [month |-> month]
    /\ ret' = SelectBudgetStatus(budgets, expenses, month)
    /\ raised' = FALSE
    /\ WithConnectExit
    /\ UNCHANGED <<expenses, expenses_seq, income, income_seq, budgets, nops,
                   returned_ids, limits_set, live>>
    /\ UNCHANGED client_vars

ExpenseIds == 1..(expenses_seq + 1)

ClientIdle ==
    /\ pc = "idle"
    /\ api_key = FALSE
    /\ tool_calls = << >>
    /\ tc_index = 0
    /\ tool_messages = << >>
    /\ final_request = << >>
    /\ invoked = << >>
    /\ failed_at = 0
    /\ llm_requests = 0

Init == init_db /\ ClientIdle

Next ==
    \/ \E e \in ExpenseInputs :
          add_expense(e.date, e.amount, e.category, e.subcategory, e.note)
    \/ \E d1 \in RangeStarts, d2 \in RangeEnds : list_expenses(d1, d2)
    \/ \E d1 \in RangeStarts, c \in Opt(Categories) :
          summarize(d1, "2024-12-31", c)
    \/ \E i \in ExpenseIds, p \in Patches : update_expense(i, p)
    \/ \E i \in ExpenseIds : delete_expense(i)
    \/ \E e \in IncomeInputs : add_income(e.date, e.amount, e.source, e.note)
    \/ \E c \in Categories, l \in Opt(Limits) : set_budget(c, l)
    \/ \E m \in Months : budget_status(m)

Spec == Init /\ [][Next]_vars

----------------------------------------------------------------------------
(* The Agent Client: main() of client1.py *)

\* the tools client.get_tools() returns, by name (named_tools)
NamedTools == {"add_expense", "list_expenses"}
\* the names a completion may ask for; a name that is no tool is a KeyError
RequestedNames == NamedTools \cup {"no_such_tool"}

\* response.tool_calls: up to MaxToolCalls calls, each with its own id
ToolCallLists ==
    UNION {[1..n -> RequestedNames] : n \in 0..MaxToolCalls}
ToolCalls(names) == [k \in DOMAIN names |-> [name |-> names[k], id |-> k]]

\* ToolMessage(tool_call_id=selected_tool_id, content=json.dumps(result))
ToolMessage(tc) == [tool_call_id |-> tc.id, content |-> tc.name]

ClientStart ==
    /\ pc = "get_tools"
    /\ api_key \in BOOLEAN
    /\ tool_calls = << >>
    /\ tc_index = 0
    /\ tool_messages = << >>
    /\ final_request = << >>
    /\ invoked = << >>
    /\ failed_at = 0
    /\ llm_requests = 0

\* tools = await client.get_tools(); then the branch on OPENAI_API_KEY
GetTools ==
    /\ pc = "get_tools"
    /\ pc' = IF api_key THEN "first_completion" ELSE "smoke_test"
    /\ UNCHANGED <<api_key, tool_calls, tc_index, tool_messages, final_request,
                   invoked, failed_at, llm_requests>>
    /\ UNCHANGED store_vars

\* no credential: one list_expenses invocation, then return
SmokeTest ==
    /\ pc = "smoke_test"
    /\ invoked' = Append(invoked, [name |-> "list_expenses", id |-> 0])
    /\ \E ok \in BOOLEAN : pc' = IF ok THEN "done" ELSE "aborted"
    /\ UNCHANGED <<api_key, tool_calls, tc_index, tool_messages, final_request,
                   failed_at, llm_requests>>
    /\ UNCHANGED store_vars

\* response = await llm_with_tools.ainvoke(prompt)
FirstCompletion ==
    /\ pc = "first_completion"
    /\ llm_requests' = llm_requests + 1
    /\ \/ /\ pc' = "aborted"          \* the request raised
          /\ UNCHANGED <<tool_calls, tc_index>>
       \/ \E names \in ToolCallLists :
            /\ tool_calls' = ToolCalls(names)
            /\ tc_index' = 1
            \* "if not response.tool_calls": print the reply and return
            /\ pc' = IF names = << >> THEN "done" ELSE "loop"
    /\ UNCHANGED <<api_key, tool_messages, final_request, invoked, failed_at>>
    /\ UNCHANGED store_vars

\* where main() goes after an invocation raised, were the exception caught
\* and the loop continued
AfterRaiseContinue == "loop"

\* where main() goes after an invocation raised: nothing catches it
AfterRaise == "aborted"

\* for tc in response.tool_calls: named_tools[selected_tool].ainvoke(args) starts
InvokeTool ==
    /\ pc = "loop"
    /\ tc_index <= Len(tool_calls)
    /\ LET tc == tool_calls[tc_index]
       IN  IF tc.name \in NamedTools
           THEN /\ invoked' = Append(invoked, tc)
                /\ pc' = "awaiting_tool"
                /\ UNCHANGED <<failed_at, tc_index>>
           ELSE \* named_tools[selected_tool] raises KeyError
                /\ failed_at' = tc_index
                /\ pc' = AfterRaise
                /\ tc_index' = tc_index + 1
                /\ UNCHANGED invoked
    /\ UNCHANGED <<api_key, tool_calls, tool_messages, final_request, llm_requests>>
    /\ UNCHANGED store_vars

\* the awaited invocation returns: its ToolMessage is appended
ToolReturns ==
    /\ pc = "awaiting_tool"
    /\ tool_messages' = Append(tool_messages, ToolMessage(tool_calls[tc_index]))
    /\ tc_index' = tc_index + 1
    /\ pc' = "loop"
    /\ UNCHANGED <<api_key, tool_calls, final_request, invoked, failed_at,
                   llm_requests>>
    /\ UNCHANGED store_vars

\* the awaited invocation raises
ToolRaises ==
    /\ pc = "awaiting_tool"
    /\ failed_at' = tc_index
    /\ tc_index' = tc_index + 1
    /\ pc' = AfterRaise
    /\ UNCHANGED <<api_key, tool_calls, tool_messages, final_request, invoked,
                   llm_requests>>
    /\ UNCHANGED store_vars

\* final_response = await llm_with_tools.ainvoke([prompt, response, *tool_messages])
FinalCompletion ==
    /\ pc = "loop"
    /\ tc_index > Len(tool_calls)
    /\ llm_requests' = llm_requests + 1
    /\ final_request' = tool_messages
    /\ \E ok \in BOOLEAN : pc' = IF ok THEN "done" ELSE "aborted"
    /\ UNCHANGED <<api_key, tool_calls, tc_index, tool_messages, invoked, failed_at>>
    /\ UNCHANGED store_vars

ClientInit == init_db /\ ClientStart

ClientNext ==
    \/ GetTools
    \/ SmokeTest
    \/ FirstCompletion
    \/ InvokeTool
    \/ ToolReturns
    \/ ToolRaises
    \/ FinalCompletion

ClientSpec == ClientInit /\ [][ClientNext]_vars

----------------------------------------------------------------------------
(* Properties *)

StrictlyIncreasing(q) == \A i, j \in DOMAIN q : i < j => q[i] < q[j]

\* C1: every id add_expense returns is greater than every id it returned
\* before, every id add_income returns is greater than every id add_income
\* returned before, and the id returned is the id of the row just stored; so
\* no id is returned twice, whatever was updated or deleted in between.
C1_IdsStrictlyIncreasing ==
    /\ StrictlyIncreasing(returned_ids.expenses)
    /\ StrictlyIncreasing(returned_ids.income)
    /\ (op = "add_expense" /\ ~raised) =>
          /\ ret.id = returned_ids.expenses[Len(returned_ids.expenses)]
          /\ \E r \in expenses : r.id = ret.id
    /\ (op = "add_income" /\ ~raised) =>
          /\ ret.id = returned_ids.income[Len(returned_ids.income)]
          /\ \E r \in income : r.id = ret.id

\* add_expense has just returned a second id although the row with the
\* highest id so far had been deleted before the call
C1_Witness ==
    /\ op = "add_expense" /\ ~raised
    /\ Len(returned_ids.expenses) = 2
    /\ RowIds(expenses) = {ret.id}

\* C2: update_expense with every field None returns "no_changes" and leaves
\* the expenses table as it is; with some fields supplied and an existing id
\* it sets exactly those fields of that row to the supplied values and leaves
\* the row's other fields, its id and every other row as they are.
C2_UpdateFrame ==
    [][op' = "update_expense" =>
        LET id == args'.expense_id
            p == args'.patch
        IN  IF \A k \in ExpenseFields : p[k] = None
            THEN /\ ret' = [status |-> "no_changes"]
                 /\ expenses' = expenses
            ELSE id \in RowIds(expenses) =>
                 /\ RowIds(expenses') = RowIds(expenses)
                 /\ Cardinality(expenses') = Cardinality(expenses)
                 /\ \A r \in expenses : r.id # id => r \in expenses'
                 /\ \A r \in expenses : r.id = id =>
                      \E q \in expenses' :
                         /\ q.id = id
                         /\ \A k \in ExpenseFields :
                              q[k] = IF p[k] = None THEN r[k] ELSE The(p[k])
    ]_vars

\* update_expense has just changed two fields of one of two stored rows
C2_Witness ==
    /\ op = "update_expense"
    /\ ret = [status |-> "ok"]
    /\ args.expense_id \in RowIds(expenses)
    /\ SuppliedFields(args.patch) = {"amount", "note"}
    /\ Cardinality(expenses) = 2
    /\ \E r \in expenses : r.id = args.expense_id /\ r.subcategory = "sub"

StartsWith(date, month) ==
    /\ Len(month) <= Len(date)
    /\ SubSeq(date, 1, Len(month)) = month

\* the first seven characters of the date (all of it when shorter) are the
\* month string
FirstSevenAre(date, month) ==
    IF Len(date) <= 7 THEN date = month ELSE SubSeq(date, 1, 7) = month

\* what budget_status is to return, "in the month" read as "starts with the
\* month string" (by_prefix) or as "first seven characters are the month string"
BudgetStatusIs(rows, month, by_prefix) ==
    /\ Len(rows) = Cardinality({b.category : b \in budgets})
    /\ \A i, j \in DOMAIN rows :
          i < j => StrLess(rows[i].category, rows[j].category)
    /\ \A i \in DOMAIN rows :
          LET spent == SumAmount({e \in expenses :
                                    /\ e.category = rows[i].category
                                    /\ IF by_prefix
                                       THEN StartsWith(e.date, month)
                                       ELSE FirstSevenAre(e.date, month)})
          IN  /\ \E b \in budgets :
                    /\ b.category = rows[i].category
                    /\ b.monthly_limit = rows[i].monthly_limit
              /\ rows[i].spent = spent
              /\ rows[i].remaining = rows[i].monthly_limit - spent

\* C4 as stated: one row per budgeted category in ascending category order,
\* spent the sum of the category's expenses whose date starts with the month
\* string, remaining = monthly_limit - spent.
C4_AsStated ==
    op = "budget_status" => BudgetStatusIs(ret, args.month, TRUE)

\* C4 amended: as above, with spent the sum of the category's expenses whose
\* date's first seven characters (the whole date when it is shorter) equal
\* the month string.
C4_BudgetStatus ==
    op = "budget_status" => BudgetStatusIs(ret, args.month, FALSE)

\* budget_status has reported an overspent category while an expense of a
\* category without budget and one of another month are in the table
C4_Witness ==
    /\ op = "budget_status"
    /\ Len(args.month) = 7
    /\ \E i \in DOMAIN ret : ret[i].spent > 0 /\ ret[i].remaining < 0
    /\ \E e \in expenses : \A b \in budgets : b.category # e.category
    /\ Cardinality(expenses) = 2

\* C5: list_expenses returns, in ascending id order and each once, exactly
\* the expenses added and not deleted since, as last updated, whose date d
\* satisfies start_date <= d <= end_date as strings.
C5_ListExpenses ==
    op = "list_expenses" =>
        /\ \A i, j \in DOMAIN ret : i < j => ret[i].id < ret[j].id
        /\ \A i \in DOMAIN ret :
              /\ ret[i].id \in DOMAIN live
              /\ ret[i] = live[ret[i].id]
        /\ \A id \in DOMAIN live :
              (StrLeq(args.start_date, live[id].date)
                 /\ StrLeq(live[id].date, args.end_date))
              <=> \E i \in DOMAIN ret : ret[i].id = id

\* list_expenses has returned an updated row whose date is the end of the
\* range and left out a row that is in the table
C5_Witness ==
    /\ op = "list_expenses"
    /\ Len(ret) = 1
    /\ ret[1].date = args.end_date
    /\ ret[1].note = "New shoes" /\ ret[1].category = "shopping"
    /\ Cardinality(expenses) = 2

\* C6: delete_expense on an id that is not in the table returns "deleted" and
\* leaves the three tables as they are; after any delete_expense the id is
\* absent, so a second call with the same id changes nothing more.
C6_DeleteMissing ==
    [][op' = "delete_expense" =>
        /\ args'.expense_id \notin RowIds(expenses')
        /\ args'.expense_id \notin RowIds(expenses) =>
              /\ ret' = [status |-> "deleted"]
              /\ ~raised'
              /\ UNCHANGED <<expenses, expenses_seq, income, income_seq, budgets>>
    ]_vars

\* delete_expense has run on an id no row ever had, with rows in the tables
C6_Witness ==
    /\ op = "delete_expense"
    /\ args.expense_id > expenses_seq
    /\ expenses # {}
    /\ budgets # {}

\* C7 as stated: with a category argument given, summarize returns at most
\* one row, of that category, its total the sum of the category's expenses in
\* the range; without one it returns one row per category that has an
\* expense in the range, in ascending category order.
C7_AsStated ==
    op = "summarize" =>
        LET inrange == {e \in expenses :
                          Between(e.date, args.start_date, args.end_date)}
        IN  IF args.category # None
            THEN /\ Len(ret) <= 1
                 /\ \A i \in DOMAIN ret :
                       /\ ret[i].category = The(args.category)
                       /\ ret[i].total_amount =
                            SumAmount({e \in inrange :
                                         e.category = The(args.category)})
                 /\ (\E e \in inrange : e.category = The(args.category))
                       => Len(ret) = 1
            ELSE /\ {ret[i].category : i \in DOMAIN ret} =
                       {e.category : e \in inrange}
                 /\ \A i, j \in DOMAIN ret :
                       i < j => StrLess(ret[i].category, ret[j].category)

\* C8: at most two completion requests; the invocations started are the
\* requested ones in request order, one at a time; the follow-up request is
\* issued only after all of them returned and carries one result per
\* requested call; once an invocation raised, no further invocation starts
\* and no follow-up request is issued.
C8_ClientRounds ==
    api_key =>
        /\ llm_requests <= 2
        /\ Len(invoked) <= Len(tool_calls)
        /\ \A k \in DOMAIN invoked : invoked[k] = tool_calls[k]
        /\ Len(tool_messages) <= Len(invoked)
        /\ Len(invoked) <= Len(tool_messages) + 1
        /\ pc = "awaiting_tool" => Len(invoked) = Len(tool_messages) + 1
        /\ Len(invoked) = Len(tool_messages) + 1 =>
              pc \in {"awaiting_tool", "aborted"}
        /\ llm_requests = 2 =>
              /\ Len(invoked) = Len(tool_calls)
              /\ Len(final_request) = Len(tool_calls)
              /\ \A k \in DOMAIN tool_calls :
                    final_request[k].tool_call_id = tool_calls[k].id
        /\ failed_at # 0 =>
              /\ pc = "aborted"
              /\ llm_requests = 1
              /\ Len(invoked) <= failed_at
              /\ Len(tool_messages) = failed_at - 1

\* the client has finished after a follow-up request that carried the results
\* of three invocations
C8_Witness ==
    /\ api_key
    /\ pc = "done"
    /\ llm_requests = 2
    /\ Len(tool_calls) = 3
    /\ Len(final_request) = 3

\* C9 as stated: when a tool has returned or raised, the connection it opened
\* is closed.
C9_AsStated == op # "" => ~conn_open

\* C10: update_expense with a field supplied and an id that is not in the
\* table returns "ok", creates no row and leaves the three tables as they are.
C10_UpdateMissing ==
    [][(/\ op' = "update_expense"
        /\ SuppliedFields(args'.patch) # {}
        /\ args'.expense_id \notin RowIds(expenses)) =>
        /\ ret' = [status |-> "ok"]
        /\ ~raised'
        /\ UNCHANGED <<expenses, expenses_seq, income, income_seq, budgets>>
    ]_vars

\* update_expense has answered "ok" for an id no row ever had
C10_Witness ==
    /\ op = "update_expense"
    /\ ret = [status |-> "ok"]
    /\ args.expense_id > expenses_seq
    /\ expenses # {}
    /\ budgets # {}
====
